---- MODULE Spec2Model ----
(***************************************************************************)
(* The incremental synchronisation engine of prism: the persisted          *)
(* SyncState row, the Document table, the step-wise sync actions           *)
(* (src/app/actions/sync.ts), the scheduled sync (the cron route), the     *)
(* batch archive (src/lib/readwise.ts, src/app/actions/triage.ts) and the  *)
(* rate-limited API client (src/lib/readwise.ts).                          *)
(***************************************************************************)
EXTENDS Integers, Sequences, FiniteSets, TLC

(* ---------------------------------------------------------------- bounds *)
\* A fetched page holds at most MaxPage documents.
MaxPage == 2
\* The logical wall clock runs over 1..MaxClock (new Date() reads it).
MaxClock == 2

\* The upstream document identifiers (readwiseId) the model draws from.
Ids == {1, 2}
\* Opaque pagination tokens issued by upstream.
Cursors == {"c1", "c2"}
\* null for a cursor (string | null).
NullCursor == "null"
\* null for a Date | null field; real times are >= 1.
NoTime == 0
\* location values the model draws from (the closed set is larger).
Locations == {"later", "archive"}
\* null for errorMsg; a message is a non-empty tuple of strings.
NullMsg == <<>>

VARIABLES
    apiToken,    \* settings.apiToken is set
    syncState,   \* the SyncState row "main" (exists = FALSE: no row yet)
    documents,   \* the Document table: a set of rows
    clock,       \* the wall clock
    adv,         \* the syncNextBatch invocation in progress: position and locals
    cron,        \* the scheduled sync (GET) in progress: position and locals
    arch,        \* the archiveDocuments invocation in progress: position and locals
    ret,         \* what the handler that returned last reported to its caller
    mark,        \* history: the failure or skip whose recovery is still to be followed by a fetch
    upstream,    \* the document representations the upstream library holds in this run
    api,         \* the API client instance and the request timing (see the client section)
    serial,      \* the callers await one another: no handler starts inside another
    ui,          \* the SyncControls component: its ref, state, timer and pending calls
    tags,        \* the tag collection converted last: input, output and by whom
    win,         \* one upstream document followed through sync cycles (see the window section)
    peer         \* a second syncNextBatch invocation, from another request: position and locals

vars == <<apiToken, syncState, documents, clock, adv, cron, arch, ret, mark, upstream, api,
          serial, ui, tags, win, peer>>

(* ------------------------------------------------------------ persistence *)
\* The row prisma creates from `create: {id: "main", status, totalSynced: 0}`;
\* the remaining columns are nullable and start null.
NewRow(status) ==
    [exists |-> TRUE, status |-> status, lastCursor |-> NullCursor,
     lastSyncAt |-> NoTime, totalSynced |-> 0, errorMsg |-> NullMsg]

NoRow == [NewRow("idle") EXCEPT !.exists = FALSE]

\* An upstream document as the list endpoint returns it (the fields the model
\* keeps).  The documents drawn are those upstream has moved to the archive (with
\* a last_moved_at) and those it never moved (without one).
UpDocs ==
    {d \in [id : Ids, location : Locations, created_at : {1, 2},
            last_moved_at : {NoTime, 1}, updated_at : {1, 2}] :
        (d.location = "archive") <=> (d.last_moved_at # NoTime)}

\* transformDocument: upstream representation -> the persisted shape.
\* An absent optional timestamp maps to null; created_at and updated_at are
\* always converted.
transformDocument(doc) ==
    [readwiseId |-> doc.id,
     location |-> doc.location,
     lastMovedAt |-> IF doc.last_moved_at # NoTime THEN doc.last_moved_at ELSE NoTime,
     createdAt |-> doc.created_at,
     updatedAt |-> doc.updated_at]

\* (a slip: an insert where an upsert was meant, the key not being unique)
UpsertFullInserts(table, doc) == table \cup {doc}

\* prisma.document.upsert({where: {readwiseId}, update: doc, create: doc}):
\* every column of an existing row is overwritten, otherwise a row is inserted.
UpsertFull(table, doc) ==
    IF \E r \in table : r.readwiseId = doc.readwiseId
    THEN {IF r.readwiseId = doc.readwiseId THEN doc ELSE r : r \in table}
    ELSE table \cup {doc}

\* (a slip: the update clause leaves out updatedAt as well)
UpsertCronKeepsUpdatedAt(table, doc) ==
    IF \E r \in table : r.readwiseId = doc.readwiseId
    THEN {IF r.readwiseId = doc.readwiseId
          THEN [doc EXCEPT !.createdAt = r.createdAt, !.updatedAt = r.updatedAt]
          ELSE r : r \in table}
    ELSE table \cup {doc}

\* The scheduled sync's upsert: its update clause lists every column but
\* createdAt (and the key), its create clause lists them all.
UpsertCron(table, doc) ==
    IF \E r \in table : r.readwiseId = doc.readwiseId
    THEN {IF r.readwiseId = doc.readwiseId
          THEN [doc EXCEPT !.createdAt = r.createdAt] ELSE r : r \in table}
    ELSE table \cup {doc}

\* (a slip: the accepted rows are deleted instead of moved)
UpdateManyArchiveDeletes(table, ids, now) ==
    {r \in table : r.readwiseId \notin ids}

\* (a slip: the where clause is lost and every row is updated)
UpdateManyArchiveAll(table, ids, now) ==
    {[r EXCEPT !.location = "archive", !.lastMovedAt = now] : r \in table}

\* prisma.document.updateMany({where: {readwiseId: {in: ids}},
\*                             data: {location: "archive", lastMovedAt: new Date()}})
UpdateManyArchive(table, ids, now) ==
    {IF r.readwiseId \in ids
     THEN [r EXCEPT !.location = "archive", !.lastMovedAt = now] ELSE r : r \in table}

\* prisma.document.count()
Count(table) == Cardinality(table)

(* ------------------------------------------------------------------ locals *)
NoReq == [pageCursor |-> NullCursor, updatedAfter |-> NoTime]

\* The loop variable doc of the two upsert loops before the first iteration.
NoDoc == [id |-> 0, location |-> "later", created_at |-> NoTime, last_moved_at |-> NoTime,
          updated_at |-> NoTime]

AdvIdle == [pc |-> "idle", syncState |-> NoRow, n |-> 0, next |-> NullCursor,
            i |-> 0, doc |-> NoDoc, req |-> NoReq]

CronIdle == [pc |-> "idle", lastSyncAt |-> NoTime, cursor |-> NullCursor, n |-> 0,
             next |-> NullCursor, i |-> 0, doc |-> NoDoc, req |-> NoReq]

ArchIdle == [pc |-> "idle", ids |-> <<>>, i |-> 0, attempts |-> <<>>,
             success |-> <<>>, failed |-> <<>>]

NoRet == [op |-> "none"]

NoMark == [kind |-> "none", cursor |-> NullCursor, time |-> NoTime]

\* The variables of the server and of the API client.
core == <<apiToken, syncState, documents, clock, adv, cron, arch, ret, mark, upstream, api,
          serial, peer>>

\* Variables no syncNextBatch invocation touches, whichever request runs it.
aside == <<upstream, api, serial, ui, tags, win>>

\* Variables the server-side handlers never touch.
away == <<upstream, api, serial, ui, tags, win, peer>>

\* No handler is between two of its awaits.
Quiescent == adv.pc = "idle" /\ cron.pc = "idle" /\ arch.pc = "idle"

\* A handler may start: always when the callers do not await one another (the
\* handlers themselves take no lock), else only when none is running.
Turn == serial => Quiescent

Progress(op, status, total, batch, hasMore, error) ==
    [op |-> op, status |-> status, totalSynced |-> total, currentBatch |-> batch,
     hasMore |-> hasMore, error |-> error]

\* The id lists archiveDocuments is called with: its callers pass the members of
\* a Set or the keys of a findMany, so no id occurs twice; an id need not be stored.
RECURSIVE SeqToSet(_)
SeqToSet(s) == IF s = <<>> THEN {} ELSE {Head(s)} \cup SeqToSet(Tail(s))

ArchiveInputs ==
    {s \in UNION {[1..k -> Ids] : k \in 0..Cardinality(Ids)} :
        \A a, b \in DOMAIN s : s[a] = s[b] => a = b}

(* ------------------------------------------------------------- environment *)
\* Time passes.
Tick ==
    /\ clock < MaxClock
    /\ clock' = clock + 1
    /\ UNCHANGED <<apiToken, syncState, documents, adv, cron, arch, ret, mark, away>>

\* saveApiToken with a token upstream accepts (validateToken returned true).
saveApiToken ==
    /\ Turn
    /\ ~apiToken
    /\ apiToken' = TRUE
    /\ ret' = [op |-> "saveApiToken"]
    /\ UNCHANGED <<syncState, documents, clock, adv, cron, arch, mark, away>>

deleteApiToken ==
    /\ Turn
    /\ apiToken
    /\ apiToken' = FALSE
    /\ ret' = [op |-> "deleteApiToken"]
    /\ UNCHANGED <<syncState, documents, clock, adv, cron, arch, mark, away>>

\* (a slip: the resume point is not sent, every request asks for the first page)
FetchParamsNoCursor(pageCursor, updatedAfter) ==
    [pageCursor |-> NullCursor, updatedAfter |-> updatedAfter]

\* (a slip: the lower bound is sent with the first page of a cycle only)
FetchParamsFirstPageOnly(pageCursor, updatedAfter) ==
    [pageCursor |-> pageCursor,
     updatedAfter |-> IF pageCursor = NullCursor THEN updatedAfter ELSE NoTime]

\* The params object both sync paths hand to fetchDocuments:
\* {pageCursor: cursor ?? undefined, updatedAfter: lastSyncAt?.toISOString()}.
FetchParams(pageCursor, updatedAfter) ==
    [pageCursor |-> pageCursor, updatedAfter |-> updatedAfter]

(* ---------------------------------------------------------------- startSync *)
\* (a slip: the running cycle is not noticed)
startSync_neverSyncing(currentState) == FALSE

\* Line 44: currentState?.status === "syncing".
startSync_alreadySyncing(currentState) ==
    currentState.exists /\ currentState.status = "syncing"

\* (a slip: the new cycle inherits the stored cursor)
StartUpdateKeepsCursor(row) ==
    [row EXCEPT !.status = "syncing", !.errorMsg = NullMsg]

\* Lines 55-59, the update clause: {status: "syncing", errorMsg: null, lastCursor: null}.
StartUpdate(row) ==
    [row EXCEPT !.status = "syncing", !.errorMsg = NullMsg, !.lastCursor = NullCursor]

startSync ==
    /\ Turn
    /\ IF ~apiToken
       THEN /\ ret' = Progress("startSync", "error", 0, 0, FALSE, "No API token configured")
            /\ UNCHANGED syncState
       ELSE IF startSync_alreadySyncing(syncState)
       THEN /\ ret' = Progress("startSync", "syncing", syncState.totalSynced, 0, TRUE, "")
            /\ UNCHANGED syncState
       ELSE /\ syncState' = IF syncState.exists THEN StartUpdate(syncState)
                                              ELSE NewRow("syncing")
            /\ ret' = Progress("startSync", "syncing", 0, 0, TRUE, "")
    /\ UNCHANGED <<apiToken, documents, clock, adv, cron, arch, mark, away>>

(* ------------------------------------------------------------ syncNextBatch *)
\* (a slip: the step never gets past its check)
syncNextBatch_alwaysStops(row) == TRUE

\* (a slip: only a missing record stops the step)
syncNextBatch_onlyMissing(row) == ~row.exists

\* Line 96: !syncState || syncState.status !== "syncing".
syncNextBatch_notSyncing(row) == ~row.exists \/ row.status # "syncing"

\* In the steps below inv is the invocation's position and locals and invNext
\* their value after the step.
\* Lines 76-112: the guards, then the page request is sent.
\* fetchDocuments sends pageCursor and updatedAfter only when they are set.
syncNextBatch_callOf(inv, invNext) ==
    /\ Turn
    /\ inv.pc = "idle"
    /\ IF ~apiToken
       THEN /\ ret' = Progress("syncNextBatch", "error", 0, 0, FALSE, "No API token configured")
            /\ invNext = inv
       ELSE IF syncNextBatch_notSyncing(syncState)
       THEN /\ ret' = Progress("syncNextBatch", "idle",
                               IF syncState.exists THEN syncState.totalSynced ELSE 0,
                               0, FALSE, "")
            /\ invNext = inv
       ELSE /\ invNext = [AdvIdle EXCEPT !.pc = "fetch", !.syncState = syncState,
                          !.req = FetchParams(syncState.lastCursor,
                                              syncState.lastSyncAt)]
            /\ ret' = NoRet
    /\ UNCHANGED <<apiToken, syncState, documents, clock, cron, arch, mark, aside>>

\* (a slip: the catch block sets the status and stores no message)
CatchUpdateNoMessage(row, snapshot, errorMsg) ==
    [row EXCEPT !.status = "error"]

\* (a slip: the catch block also clears the cursor, as a skip does)
CatchUpdateClearsCursor(row, snapshot, errorMsg) ==
    [row EXCEPT !.status = "error", !.lastCursor = NullCursor,
                !.errorMsg = <<errorMsg, "start">>]

\* (a slip: the catch block also forgets when the last cycle was completed)
CatchUpdateClearsLastSync(row, snapshot, errorMsg) ==
    [row EXCEPT !.status = "error", !.lastSyncAt = NoTime,
                !.errorMsg = <<errorMsg, "start">>]

\* (a slip: the catch block stores the message and forgets the status)
CatchUpdateKeepsStatus(row, snapshot, errorMsg) ==
    [row EXCEPT !.errorMsg = <<errorMsg, "start">>]

\* The data of the catch block's update, lines 159-165: only status and errorMsg
\* are written; the message carries the first 20 characters of the cursor the
\* step began with (snapshot is the syncState the step read at its start).
CatchUpdate(row, snapshot, errorMsg) ==
    [row EXCEPT
       !.status = "error",
       !.errorMsg = <<errorMsg, IF snapshot.lastCursor # NullCursor
                                THEN snapshot.lastCursor ELSE "start">>]

\* The catch block, lines 154-174.
syncNextBatch_catchOf(inv, invNext, errorMsg) ==
    /\ syncState' = CatchUpdate(syncState, inv.syncState, errorMsg)
    /\ ret' = Progress("syncNextBatch", "error", inv.syncState.totalSynced, 0, FALSE, errorMsg)
    /\ mark' = [kind |-> "failed", cursor |-> inv.syncState.lastCursor, time |-> NoTime]
    /\ invNext = AdvIdle
    /\ UNCHANGED <<apiToken, documents, clock, cron, arch, aside>>

\* The response arrives: a page of n documents and its nextPageCursor.
syncNextBatch_fetchedOf(inv, invNext) ==
    /\ inv.pc = "fetch"
    /\ \E n \in 0..MaxPage, next \in Cursors \cup {NullCursor} :
          invNext = [inv EXCEPT !.pc = "upsert", !.n = n, !.next = next, !.i = 0]
    /\ mark' = NoMark
    /\ UNCHANGED <<apiToken, syncState, documents, clock, cron, arch, ret, aside>>

\* fetchDocuments throws (a non-ok response after the client's retries).
syncNextBatch_fetchFailedOf(inv, invNext) ==
    /\ inv.pc = "fetch"
    /\ syncNextBatch_catchOf(inv, invNext, "Failed to fetch documents")

\* One iteration of the upsert loop, lines 117-123.  The page is immutable and no
\* statement reads a document before its own upsert, so the content of
\* results[i] is drawn when it is consumed.
syncNextBatch_upsertOf(inv, invNext) ==
    /\ inv.pc = "upsert"
    /\ inv.i < inv.n
    /\ \E doc \in upstream :
          /\ documents' = UpsertFull(documents, transformDocument(doc))
          /\ invNext = [inv EXCEPT !.i = inv.i + 1, !.doc = doc]
    /\ UNCHANGED <<apiToken, syncState, clock, cron, arch, ret, mark, aside>>

\* An upsert raises (a database error): the rows written so far stay.
syncNextBatch_upsertFailedOf(inv, invNext) ==
    /\ inv.pc = "upsert"
    /\ inv.i < inv.n
    /\ syncNextBatch_catchOf(inv, invNext, "Failed to upsert")

\* (a slip: every page ends the cycle)
HasMoreNever(nextPageCursor, length) == FALSE

\* (a slip: only the cursor decides, so an empty page with a cursor goes on)
HasMoreCursorOnly(nextPageCursor, length) == nextPageCursor # NullCursor

\* Line 128: Boolean(response.nextPageCursor) && documents.length > 0.
HasMore(nextPageCursor, length) == nextPageCursor # NullCursor /\ length > 0

\* Lines 125-153: terminal rule, recount, state update, report.
syncNextBatch_finishOf(inv, invNext) ==
    /\ inv.pc = "upsert"
    /\ inv.i = inv.n
    /\ LET hasMore == HasMore(inv.next, inv.n)
           currentTotal == Count(documents)
       IN /\ syncState' = [syncState EXCEPT
                !.totalSynced = currentTotal,
                !.lastCursor = inv.next,
                !.status = IF hasMore THEN "syncing" ELSE "idle",
                !.lastSyncAt = IF hasMore THEN inv.syncState.lastSyncAt ELSE clock,
                !.errorMsg = NullMsg]
          /\ ret' = Progress("syncNextBatch", IF hasMore THEN "syncing" ELSE "completed",
                             currentTotal, inv.n, hasMore, "")
    /\ invNext = AdvIdle
    /\ UNCHANGED <<apiToken, documents, clock, cron, arch, mark, aside>>

\* The invocation the sequential claims follow.
syncNextBatch_call ==
    syncNextBatch_callOf(adv, adv') /\ UNCHANGED peer

syncNextBatch_catch(errorMsg) ==
    syncNextBatch_catchOf(adv, adv', errorMsg) /\ UNCHANGED peer

syncNextBatch_fetched ==
    syncNextBatch_fetchedOf(adv, adv') /\ UNCHANGED peer

syncNextBatch_fetchFailed ==
    syncNextBatch_fetchFailedOf(adv, adv') /\ UNCHANGED peer

syncNextBatch_upsert ==
    syncNextBatch_upsertOf(adv, adv') /\ UNCHANGED peer

syncNextBatch_upsertFailed ==
    syncNextBatch_upsertFailedOf(adv, adv') /\ UNCHANGED peer

syncNextBatch_finish ==
    syncNextBatch_finishOf(adv, adv') /\ UNCHANGED peer

\* The same handler run by a second request at the same time.
peer_call ==
    syncNextBatch_callOf(peer, peer') /\ UNCHANGED adv

peer_fetched ==
    syncNextBatch_fetchedOf(peer, peer') /\ UNCHANGED adv

peer_fetchFailed ==
    syncNextBatch_fetchFailedOf(peer, peer') /\ UNCHANGED adv

peer_upsert ==
    syncNextBatch_upsertOf(peer, peer') /\ UNCHANGED adv

peer_upsertFailed ==
    syncNextBatch_upsertFailedOf(peer, peer') /\ UNCHANGED adv

peer_finish ==
    syncNextBatch_finishOf(peer, peer') /\ UNCHANGED adv

(* ------------------------------------------------------- recovery and reset *)
\* prisma.syncState.update rejects when the row does not exist: nothing is written.
clearError ==
    /\ Turn
    /\ syncState.exists
    /\ syncState' = [syncState EXCEPT !.status = "idle", !.errorMsg = NullMsg]
    /\ ret' = [op |-> "clearError"]
    /\ mark' = IF mark.kind = "failed" THEN [mark EXCEPT !.kind = "retry"] ELSE mark
    /\ UNCHANGED <<apiToken, documents, clock, adv, cron, arch, away>>

\* (a slip: the skip forgets to move lastSyncAt)
SkipUpdateKeepsLastSync(row, currentTotal, now) ==
    [row EXCEPT !.status = "idle", !.errorMsg = NullMsg, !.lastCursor = NullCursor,
                !.totalSynced = currentTotal]

\* The data of skipProblematicCursor's update, lines 199-208.
SkipUpdate(row, currentTotal, now) ==
    [row EXCEPT !.status = "idle", !.errorMsg = NullMsg, !.lastCursor = NullCursor,
                !.lastSyncAt = now, !.totalSynced = currentTotal]

skipProblematicCursor ==
    /\ Turn
    /\ syncState.exists
    /\ syncState' = SkipUpdate(syncState, Count(documents), clock)
    /\ ret' = [op |-> "skipProblematicCursor"]
    /\ mark' = [kind |-> "skip", cursor |-> NullCursor, time |-> clock]
    /\ UNCHANGED <<apiToken, documents, clock, adv, cron, arch, away>>

\* (a slip: the record is reset and the documents stay)
resetSyncKeepsDocuments ==
    /\ Turn
    /\ syncState' = NewRow("idle")
    /\ ret' = [op |-> "resetSync"]
    /\ mark' = NoMark
    /\ UNCHANGED <<apiToken, documents, clock, adv, cron, arch, away>>

resetSync ==
    /\ Turn
    /\ syncState' = NewRow("idle")
    /\ documents' = {}
    /\ ret' = [op |-> "resetSync"]
    /\ mark' = NoMark
    /\ UNCHANGED <<apiToken, clock, adv, cron, arch, away>>

(* ------------------------------------------------- the scheduled sync (GET) *)
\* (a slip: the scheduled sync does not look at the status)
GET_neverSyncing(row) == FALSE

\* Line 37: syncState?.status === "syncing".
GET_alreadySyncing(row) == row.exists /\ row.status = "syncing"

\* Lines 17-61: the guards, the status write, then the first page request.
\* The local totalSynced only feeds the response message and is left out.
GET_call ==
    /\ Turn
    /\ cron.pc = "idle"
    /\ IF ~apiToken
       THEN /\ ret' = [op |-> "GET", http |-> 400]
            /\ UNCHANGED <<syncState, cron>>
       ELSE IF GET_alreadySyncing(syncState)
       THEN /\ ret' = [op |-> "GET", http |-> 200]
            /\ UNCHANGED <<syncState, cron>>
       ELSE /\ syncState' =
                 IF syncState.exists
                 THEN [syncState EXCEPT !.status = "syncing", !.errorMsg = NullMsg]
                 ELSE NewRow("syncing")
            /\ cron' = [CronIdle EXCEPT !.pc = "fetch", !.lastSyncAt = syncState.lastSyncAt,
                           !.req = FetchParams(NullCursor, syncState.lastSyncAt)]
            /\ ret' = NoRet
    /\ UNCHANGED <<apiToken, documents, clock, adv, arch, mark, away>>

\* The inner catch, lines 158-170, and the outer one: status error, errorMsg
\* without cursor context, HTTP 500.
GET_catch(errorMsg) ==
    /\ syncState' = [syncState EXCEPT !.status = "error", !.errorMsg = <<errorMsg>>]
    /\ ret' = [op |-> "GET", http |-> 500]
    /\ cron' = CronIdle
    /\ mark' = NoMark
    /\ UNCHANGED <<apiToken, documents, clock, adv, arch, away>>

GET_fetched ==
    /\ cron.pc = "fetch"
    /\ \E n \in 0..MaxPage, next \in Cursors \cup {NullCursor} :
          cron' = [cron EXCEPT !.pc = "upsert", !.n = n, !.next = next, !.i = 0]
    /\ mark' = NoMark
    /\ UNCHANGED <<apiToken, syncState, documents, clock, adv, arch, ret, away>>

GET_fetchFailed ==
    /\ cron.pc = "fetch"
    /\ GET_catch("Failed to fetch documents")

GET_upsert ==
    /\ cron.pc = "upsert"
    /\ cron.i < cron.n
    /\ \E doc \in upstream :
          /\ documents' = UpsertCron(documents, transformDocument(doc))
          /\ cron' = [cron EXCEPT !.i = cron.i + 1, !.doc = doc]
    /\ UNCHANGED <<apiToken, syncState, clock, adv, arch, ret, mark, away>>

GET_upsertFailed ==
    /\ cron.pc = "upsert"
    /\ cron.i < cron.n
    /\ GET_catch("Failed to upsert")

\* Lines 137-138: cursor = response.nextPageCursor; while (cursor): next request.
GET_nextPage ==
    /\ cron.pc = "upsert"
    /\ cron.i = cron.n
    /\ cron.next # NullCursor
    /\ cron' = [cron EXCEPT !.pc = "fetch", !.cursor = cron.next, !.n = 0, !.i = 0,
                   !.next = NullCursor, !.doc = NoDoc,
                   !.req = FetchParams(cron.next, cron.lastSyncAt)]
    /\ UNCHANGED <<apiToken, syncState, documents, clock, adv, arch, ret, mark, away>>

\* Lines 140-157: the loop ended.
GET_finish ==
    /\ cron.pc = "upsert"
    /\ cron.i = cron.n
    /\ cron.next = NullCursor
    /\ syncState' = [syncState EXCEPT
          !.status = "idle", !.lastSyncAt = clock, !.totalSynced = Count(documents),
          !.lastCursor = NullCursor, !.errorMsg = NullMsg]
    /\ ret' = [op |-> "GET", http |-> 200]
    /\ cron' = CronIdle
    /\ UNCHANGED <<apiToken, documents, clock, adv, arch, mark, away>>

(* ------------------------------------------------------------ batch archive *)
\* archiveDocuments, lines 676-685: the token guard, then batchArchive starts.
\* (a slip: the token is taken for granted)
archiveDocuments_tokenAssumed(token) == FALSE

\* triage.ts line 680: if (!token).
archiveDocuments_noToken(token) == ~token

archiveDocuments_call ==
    /\ Turn
    /\ arch.pc = "idle"
    /\ \E ids \in ArchiveInputs :
          IF archiveDocuments_noToken(apiToken)
          THEN /\ ret' = [op |-> "archiveDocuments", requested |-> Len(ids),
                          success |-> 0, failed |-> Len(ids),
                          errors |-> <<"No API token configured">>]
               /\ UNCHANGED arch
          ELSE /\ arch' = [ArchIdle EXCEPT !.pc = "batch", !.ids = ids]
               /\ ret' = NoRet
    /\ UNCHANGED <<apiToken, syncState, documents, clock, adv, cron, mark, away>>

\* One iteration of batchArchive's loop whose archiveDocument(id) resolves.
batchArchive_archived ==
    /\ arch.pc = "batch"
    /\ arch.i < Len(arch.ids)
    /\ LET id == arch.ids[arch.i + 1]
       IN arch' = [arch EXCEPT !.i = arch.i + 1,
                               !.attempts = Append(arch.attempts, id),
                               !.success = Append(arch.success, id)]
    /\ UNCHANGED <<apiToken, syncState, documents, clock, adv, cron, ret, mark, away>>

\* (a slip: the first failure ends the batch, as a throw out of the loop would)
batchArchive_rejectedAborts ==
    /\ arch.pc = "batch"
    /\ arch.i < Len(arch.ids)
    /\ LET id == arch.ids[arch.i + 1]
       IN arch' = [arch EXCEPT !.i = Len(arch.ids),
                               !.attempts = Append(arch.attempts, id),
                               !.failed = Append(arch.failed, id)]
    /\ UNCHANGED <<apiToken, syncState, documents, clock, adv, cron, ret, mark, away>>

\* One iteration whose archiveDocument(id) throws: the id and the message are kept.
batchArchive_rejected ==
    /\ arch.pc = "batch"
    /\ arch.i < Len(arch.ids)
    /\ LET id == arch.ids[arch.i + 1]
       IN arch' = [arch EXCEPT !.i = arch.i + 1,
                               !.attempts = Append(arch.attempts, id),
                               !.failed = Append(arch.failed, id)]
    /\ UNCHANGED <<apiToken, syncState, documents, clock, adv, cron, ret, mark, away>>

\* batchArchive returns {success, failed}.
batchArchive_return ==
    /\ arch.pc = "batch"
    /\ arch.i = Len(arch.ids)
    /\ arch' = [arch EXCEPT !.pc = "update"]
    /\ UNCHANGED <<apiToken, syncState, documents, clock, adv, cron, ret, mark, away>>

\* archiveDocuments, lines 687-707: one bulk update for the success list, the report.
archiveDocuments_finish ==
    /\ arch.pc = "update"
    /\ documents' = IF Len(arch.success) > 0
                    THEN UpdateManyArchive(documents, SeqToSet(arch.success), clock)
                    ELSE documents
    /\ ret' = [op |-> "archiveDocuments", requested |-> Len(arch.ids),
               success |-> Len(arch.success),
               failed |-> Len(arch.failed), errors |-> arch.failed]
    /\ arch' = ArchIdle
    /\ UNCHANGED <<apiToken, syncState, clock, adv, cron, mark, away>>

(* ------------------------------------------------------------- API client *)
\* Times of the client are in seconds.
\* minRequestInterval = 3000 ms.
MinRequestInterval == 3
\* The 500 retry cap (retryCount < 3).
MaxRetries == 3
\* Math.pow(2, retryCount) * 2000 ms.
BackoffBase == 2
\* The largest Retry-After, in seconds, upstream sends in the model.
MaxRetryAfter == 2

\* The Retry-After header of a 429: absent (<<>>) or a number of seconds.
RetryAfters == {<<>>} \cup {<<k>> : k \in 0..MaxRetryAfter}

\* The requests of one call are counted up to MaxAttempts.
MaxAttempts == 4

\* Response statuses upstream answers with.
Statuses == {200, 204, 404, 429, 500, 502}

\* The methods of the client that go through rateLimitedFetch.
Methods == {"validateToken", "fetchDocuments", "updateDocument"}

\* response.ok
Ok(status) == status >= 200 /\ status <= 299

\* (a slip: any success status counts as a valid token)
validateTokenAnyOk(threw, status) ==
    IF ~threw /\ Ok(status) THEN "true" ELSE "false"

\* validateToken, lines 108-117: response.status === 204, and false from the catch.
validateToken(threw, status) ==
    IF threw THEN "false" ELSE IF status = 204 THEN "true" ELSE "false"

\* fetchDocuments, lines 148-156, and updateDocument, lines 333-339: an
\* exception of rateLimitedFetch passes through, a non-ok response is thrown.
fetchDocuments(threw, status) ==
    IF threw \/ ~Ok(status) THEN "throws" ELSE "returns"

\* What the method that called rateLimitedFetch hands to its own caller.
MethodResult(method, threw, status) ==
    IF method = "validateToken" THEN validateToken(threw, status)
    ELSE fetchDocuments(threw, status)

RECURSIVE Pow2(_)
Pow2(k) == IF k = 0 THEN 1 ELSE 2 * Pow2(k - 1)

\* now - lastRequestTime and the time since the last request left, both kept up
\* to MinRequestInterval (the code only asks whether they are below it).
Aged(t) == IF t < MinRequestInterval THEN t + 1 ELSE t

\* The client record: pc is the position inside rateLimitedFetch; age is
\* now - this.lastRequestTime; sinceSent is the time since any client's last
\* request; gap is sinceSent as it stood when the last request was sent.
\* method is the calling method, attempts the requests the call has sent,
\* retryAfter the header of the last 429, throttled whether the call met a 429,
\* threw whether fetch raised, result what the method handed back.
ApiInit ==
    [pc |-> "idle", age |-> MinRequestInterval, sinceSent |-> MinRequestInterval,
     timer |-> 0, retryCount |-> 0, gap |-> MinRequestInterval, status |-> 0, sent |-> 0,
     method |-> "none", attempts |-> 0, retryAfter |-> <<>>, throttled |-> FALSE,
     threw |-> FALSE, result |-> "none"]

server == <<apiToken, syncState, documents, clock, adv, cron, arch, ret, mark, upstream,
            serial, ui, tags, win, peer>>

\* One second passes; a pending setTimeout comes one second closer.
ClientTick ==
    /\ api' = [api EXCEPT !.age = Aged(api.age), !.sinceSent = Aged(api.sinceSent),
                          !.timer = IF api.timer > 0 THEN api.timer - 1 ELSE 0]
    /\ UNCHANGED server

\* createReadwiseClient(token), as syncNextBatch, GET, archiveDocuments and
\* saveApiToken call it at their start: lastRequestTime = 0, the epoch.
createReadwiseClient ==
    /\ api.pc = "idle"
    /\ api' = [api EXCEPT !.age = MinRequestInterval, !.sent = 0]
    /\ UNCHANGED server

\* Lines 64-71: the admission check of rateLimitedFetch.
Admit(retryCount) ==
    [api EXCEPT !.retryCount = retryCount,
                !.pc = IF api.age < MinRequestInterval THEN "admit" ELSE "send",
                !.timer = IF api.age < MinRequestInterval
                          THEN MinRequestInterval - api.age ELSE 0]

\* A method of the client calls rateLimitedFetch(url, options) (retryCount = 0).
rateLimitedFetch_call ==
    /\ api.pc = "idle"
    /\ \E method \in Methods :
          api' = [Admit(0) EXCEPT !.status = 0, !.method = method, !.attempts = 0,
                                  !.retryAfter = <<>>, !.throttled = FALSE,
                                  !.threw = FALSE, !.result = "none"]
    /\ UNCHANGED server

\* The admission sleep is over.
rateLimitedFetch_admitted ==
    /\ api.pc = "admit"
    /\ api.timer = 0
    /\ api' = [api EXCEPT !.pc = "send"]
    /\ UNCHANGED server

\* Lines 72-81: lastRequestTime = Date.now(), then the request leaves.
rateLimitedFetch_send ==
    /\ api.pc = "send"
    /\ api' = [api EXCEPT !.pc = "wait", !.age = 0, !.gap = api.sinceSent,
                          !.sinceSent = 0, !.sent = IF api.sent < 2 THEN api.sent + 1 ELSE 2,
                          !.attempts = IF api.attempts < MaxAttempts
                                       THEN api.attempts + 1 ELSE api.attempts,
                          !.retryAfter = <<>>]
    /\ UNCHANGED server

\* The response handed to the method, which hands its own result on.
Return(status) ==
    [api EXCEPT !.pc = "idle", !.status = status,
                !.result = MethodResult(api.method, FALSE, status)]

\* (a slip: a 429 draws on the retry budget of the 500s and is handed back
\* once the budget is spent)
OnResponseThrottleCapped(status, retryAfter) ==
    IF status \in {429, 500} /\ api.retryCount < MaxRetries
    THEN [api EXCEPT !.pc = "sleep", !.status = status, !.retryAfter = retryAfter,
             !.throttled = api.throttled \/ status = 429,
             !.timer = Pow2(api.retryCount) * BackoffBase,
             !.retryCount = api.retryCount + 1]
    ELSE Return(status)

\* (a slip: a 429 starts the retry budget of the 500s afresh)
OnResponseThrottleResets(status, retryAfter) ==
    IF status = 429
    THEN [api EXCEPT !.pc = "sleep", !.status = status, !.retryAfter = retryAfter,
             !.throttled = TRUE, !.retryCount = 0,
             !.timer = IF retryAfter # <<>> THEN retryAfter[1]
                       ELSE MinRequestInterval * 2]
    ELSE IF status = 500 /\ api.retryCount < MaxRetries
    THEN [api EXCEPT !.pc = "sleep", !.status = status,
             !.timer = Pow2(api.retryCount) * BackoffBase,
             !.retryCount = api.retryCount + 1]
    ELSE Return(status)

\* (a slip: every 5xx is retried like a 500)
OnResponseRetriesAll5xx(status, retryAfter) ==
    IF status = 429
    THEN [api EXCEPT !.pc = "sleep", !.status = status, !.retryAfter = retryAfter,
             !.throttled = TRUE,
             !.timer = IF retryAfter # <<>> THEN retryAfter[1]
                       ELSE MinRequestInterval * 2]
    ELSE IF status >= 500 /\ api.retryCount < MaxRetries
    THEN [api EXCEPT !.pc = "sleep", !.status = status,
             !.timer = Pow2(api.retryCount) * BackoffBase,
             !.retryCount = api.retryCount + 1]
    ELSE Return(status)

\* Lines 83-101: what rateLimitedFetch does with a response.
OnResponse(status, retryAfter) ==
    IF status = 429
    THEN [api EXCEPT !.pc = "sleep", !.status = status, !.retryAfter = retryAfter,
             !.throttled = TRUE,
             !.timer = IF retryAfter # <<>> THEN retryAfter[1]
                       ELSE MinRequestInterval * 2]
    ELSE IF status = 500 /\ api.retryCount < MaxRetries
    THEN [api EXCEPT !.pc = "sleep", !.status = status,
             !.timer = Pow2(api.retryCount) * BackoffBase,
             !.retryCount = api.retryCount + 1]
    ELSE Return(status)

\* Lines 74-101: upstream answers.
rateLimitedFetch_response ==
    /\ api.pc = "wait"
    /\ \E status \in Statuses, retryAfter \in RetryAfters :
          api' = OnResponse(status, IF status = 429 THEN retryAfter ELSE <<>>)
    /\ UNCHANGED server

\* Line 74: fetch rejects (a network error); nothing in rateLimitedFetch
\* catches it, so it reaches the calling method.
rateLimitedFetch_networkError ==
    /\ api.pc = "wait"
    /\ api' = [api EXCEPT !.pc = "idle", !.status = 0, !.threw = TRUE,
                          !.result = MethodResult(api.method, TRUE, 0)]
    /\ UNCHANGED server

\* The retry sleep is over: rateLimitedFetch(url, options, retryCount) again.
rateLimitedFetch_retry ==
    /\ api.pc = "sleep"
    /\ api.timer = 0
    /\ api' = Admit(api.retryCount)
    /\ UNCHANGED server

(* ------------------------------------------------------------ SyncControls *)
\* sync-controls.tsx.  React commits a state update at the next render; between
\* the update and the render the handlers and the buttons still see the values
\* of the last render, the ref is read and written in place.

\* The most sync calls the component is let to have outstanding in this model.
MaxCalls == 2

\* The progress state: null, or the status and hasMore of a SyncProgress.
NoProgress == [status |-> "null", hasMore |-> FALSE]

\* What the two server actions can answer (sync.ts lines 22-74 and 76-175).
SyncResults(call) ==
    IF call = "startSync"
    THEN {[status |-> "error", hasMore |-> FALSE], [status |-> "syncing", hasMore |-> TRUE]}
    ELSE {[status |-> "error", hasMore |-> FALSE], [status |-> "idle", hasMore |-> FALSE],
          [status |-> "syncing", hasMore |-> TRUE],
          [status |-> "completed", hasMore |-> FALSE]}

\* syncingRef, the rendered isLoading and progress, the updates queued by
\* setIsLoading and setProgress, the auto-continue timer with the isLoading its
\* callback closed over, the sync calls awaited, the other handler awaited.
UiInit ==
    [syncingRef |-> FALSE, isLoading |-> FALSE, progress |-> NoProgress,
     setIsLoading |-> FALSE, setProgress |-> NoProgress,
     timer |-> FALSE, closure |-> FALSE, calls |-> <<>>, other |-> "none",
     loaded |-> FALSE]

\* Line 150: isSyncing.
isSyncing(progress) == progress.status = "syncing"

\* (a slip: the effect goes on whatever the last result was)
AutoContinueWhateverResult(progress, isLoading) ==
    progress.status # "null" /\ ~isLoading

\* The condition of the auto-continue effect, line 52.
AutoContinue(progress, isLoading) ==
    progress.status = "syncing" /\ progress.hasMore /\ ~isLoading

\* (a slip: the guard trusts the rendered isLoading alone)
continueSync_busyLoadingOnly(syncingRef, isLoading) == isLoading

\* Lines 61 and 78: if (syncingRef.current || isLoading) return.
continueSync_busy(syncingRef, isLoading) == syncingRef \/ isLoading

\* The sequence without its i-th element.
Without(seq, i) == [j \in 1..(Len(seq) - 1) |-> IF j < i THEN seq[j] ELSE seq[j + 1]]

\* The awaited call i has settled: setProgress(result), and the finally block
\* (lines 69-72 and 97-100) releases the ref and sets isLoading to false.
Settled(i, result) ==
    [ui EXCEPT !.setProgress = result, !.syncingRef = FALSE,
               !.setIsLoading = FALSE, !.calls = Without(ui.calls, i)]

\* A render commits the queued updates; a dependency of the effect of lines
\* 51-59 has then changed, so its cleanup clears the timer and the effect
\* sets a new one when its condition holds.
Render ==
    /\ <<ui.setIsLoading, ui.setProgress>> # <<ui.isLoading, ui.progress>>
    /\ ui' = [ui EXCEPT !.isLoading = ui.setIsLoading, !.progress = ui.setProgress,
                        !.timer = AutoContinue(ui.setProgress, ui.setIsLoading),
                        !.closure = ui.setIsLoading]
    /\ UNCHANGED <<core, tags, win>>

\* Lines 22-48: on mount the stored state is read; a cycle in progress or a
\* stored error becomes the progress.
loadSyncState ==
    /\ ~ui.loaded
    /\ \E status \in {"none", "idle", "syncing", "error"} :
          ui' = [ui EXCEPT !.loaded = TRUE,
                    !.setProgress =
                        IF status = "syncing" THEN [status |-> "syncing", hasMore |-> TRUE]
                        ELSE IF status = "error" THEN [status |-> "error", hasMore |-> FALSE]
                        ELSE ui.setProgress]
    /\ UNCHANGED <<core, tags, win>>

\* Lines 61-66: the Start button (enabled as rendered, line 263) is clicked.
handleStartSync_click ==
    /\ ~(ui.isLoading \/ isSyncing(ui.progress))
    /\ Len(ui.calls) < MaxCalls
    /\ ~continueSync_busy(ui.syncingRef, ui.isLoading)
    /\ ui' = [ui EXCEPT !.syncingRef = TRUE, !.setIsLoading = TRUE,
                        !.calls = Append(ui.calls, "startSync")]
    /\ UNCHANGED <<core, tags, win>>

\* Lines 53-55 and 76-86: the timer fires and calls the continueSync of the
\* render that set it.
continueSync_timer ==
    /\ ui.timer
    /\ Len(ui.calls) < MaxCalls
    /\ IF continueSync_busy(ui.syncingRef, ui.closure)
       THEN ui' = [ui EXCEPT !.timer = FALSE]
       ELSE ui' = [ui EXCEPT !.timer = FALSE, !.syncingRef = TRUE, !.setIsLoading = TRUE,
                             !.calls = Append(ui.calls, "syncNextBatch")]
    /\ UNCHANGED <<core, tags, win>>

\* Lines 66-73: startSync answers, or rejects (there is no catch: the progress
\* stays); the finally block releases the ref.
handleStartSync_finally ==
    /\ \E i \in 1..Len(ui.calls) :
          /\ ui.calls[i] = "startSync"
          /\ \E result \in SyncResults("startSync") \cup {ui.setProgress} :
                ui' = Settled(i, result)
    /\ UNCHANGED <<core, tags, win>>

\* Lines 86-101: syncNextBatch answers, or rejects (the catch sets an error
\* progress); the finally block releases the ref.
continueSync_finally ==
    /\ \E i \in 1..Len(ui.calls) :
          /\ ui.calls[i] = "syncNextBatch"
          /\ \E result \in SyncResults("syncNextBatch") :
                ui' = Settled(i, result)
    /\ UNCHANGED <<core, tags, win>>

\* Lines 104-105, 115-127, 136-140: Retry, Skip (shown with an error, enabled
\* as rendered, lines 215 and 234) or Reset (line 283) is clicked; these handlers
\* set isLoading and do not look at the ref.  One of them is awaited at a time.
handleOther_click ==
    /\ ui.other = "none"
    /\ \E h \in {"handleClearError", "handleSkipCursor", "handleReset"} :
          /\ IF h = "handleReset"
             THEN ~(ui.isLoading \/ isSyncing(ui.progress))
             ELSE ui.progress.status = "error" /\ ~ui.isLoading
          /\ ui' = [ui EXCEPT !.other = h, !.setIsLoading = TRUE]
    /\ UNCHANGED <<core, tags, win>>

\* Lines 106-112, 128-133, 141-148: the server action answered; the progress is
\* set to null, Retry and Skip reload the stored state, and finally isLoading is
\* set to false.
handleOther_finally ==
    /\ ui.other # "none"
    /\ \E status \in {"idle", "syncing", "error"} :
          ui' = [ui EXCEPT !.other = "none", !.setIsLoading = FALSE,
                    !.setProgress =
                        IF ui.other = "handleReset" THEN NoProgress
                        ELSE IF status = "syncing" THEN [status |-> "syncing", hasMore |-> TRUE]
                        ELSE IF status = "error" THEN [status |-> "error", hasMore |-> FALSE]
                        ELSE NoProgress]
    /\ UNCHANGED <<core, tags, win>>

(* ------------------------------------------------------- the tag collection *)
\* transformDocument lines 239-247 (and the same statements in the scheduled
\* sync, part_008 lines 65-73).

\* The most tag objects in one collection.
MaxTags == 3

TagNameSet == {"x", "y"}

\* The keys of the mapping variant: a JavaScript object lists its integer-like
\* keys first, in ascending order, and then its other keys as inserted.
TagKeys == [numeric : BOOLEAN, ord : 1..2]

\* The tag objects as they stand on the wire, at most MaxTags of them.
TagArrays == UNION {[1..n -> [name : TagNameSet]] : n \in 0..MaxTags}

\* A mapping on the wire: its entries in the order written, keys distinct.
TagMappings ==
    {m \in UNION {[1..n -> [key : TagKeys, name : TagNameSet]] : n \in 0..MaxTags} :
        \A i, j \in 1..Len(m) : m[i].key = m[j].key => i = j}

\* doc.tags: absent, an array of tag objects, or a mapping of key to tag object.
TagInputs ==
    {[kind |-> "absent", items |-> <<>>]}
       \cup {[kind |-> "array", items |-> a] : a \in TagArrays}
       \cup {[kind |-> "mapping", items |-> m] : m \in TagMappings}

\* A set of entries with integer-like keys as a sequence, least key first.
RECURSIVE AscendingKeys(_)
AscendingKeys(entries) ==
    IF entries = {} THEN <<>>
    ELSE LET least == CHOOSE e \in entries : \A f \in entries : e.key.ord <= f.key.ord
         IN <<least>> \o AscendingKeys(entries \ {least})

\* Object.values(obj): the values under the integer-like keys in ascending
\* order, then the values under the other keys in insertion order.
ObjectValues(m) ==
    AscendingKeys({m[i] : i \in {j \in 1..Len(m) : m[j].key.numeric}})
       \o SelectSeq(m, LAMBDA e : ~e.key.numeric)

\* Array.prototype.map(tag => tag.name).
MapName(seq) == [i \in 1..Len(seq) |-> seq[i].name]

\* (a slip: only the array variant is converted)
TagNamesArrayOnly(docTags) ==
    IF docTags.kind = "array" THEN MapName(docTags.items) ELSE <<>>

\* Lines 240-247.
TagNames(docTags) ==
    IF docTags.kind = "absent" THEN <<>>
    ELSE IF docTags.kind = "array" THEN MapName(docTags.items)
    ELSE MapName(ObjectValues(docTags.items))

NoTags == [input |-> [kind |-> "absent", items |-> <<>>], output |-> <<>>, by |-> "none"]

\* transformDocument converts the tags of a document handed to it.
transformDocument_tags ==
    /\ \E input \in TagInputs :
          tags' = [input |-> input, output |-> TagNames(input), by |-> "transformDocument"]
    /\ UNCHANGED <<core, ui, win>>

\* The scheduled sync converts the tags of a document of its page.
GET_tags ==
    /\ \E input \in TagInputs :
          tags' = [input |-> input, output |-> TagNames(input), by |-> "GET"]
    /\ UNCHANGED <<core, ui, win>>

(* ------------------------------------------------- the incremental window *)
\* One upstream document followed through sync cycles of two pages: startSync
\* (sync.ts lines 53-66), the step that fetches the page holding the document
\* and the step that fetches the last page (lines 108-143).  The upstream
\* list answers with the documents updated after updatedAfter.

\* The clock of this part runs to MaxWindowClock; the document is modified at
\* most MaxVersion times.
MaxWindowClock == 4
MaxVersion == 2

\* now; the upstream copy and when it was last updated; the stored copy (-1:
\* none); status, the page to fetch next and lastSyncAt of the SyncState row;
\* late: "during" when the document was modified in the running cycle after
\* its page was fetched, "owed" once that cycle has completed at a later
\* instant than the modification, "due" once the cycle after it has completed
\* with the document not modified again.
WinInit ==
    [now |-> 1, remote |-> 0, updated_at |-> 1, stored |-> -1,
     status |-> "idle", page |-> 1, lastSyncAt |-> NoTime, late |-> "no"]

\* new Date() moves on.
window_tick ==
    /\ win.now < MaxWindowClock
    /\ win' = [win EXCEPT !.now = win.now + 1]
    /\ UNCHANGED <<core, ui, tags>>

\* The document is modified upstream.
upstream_modify ==
    /\ win.remote < MaxVersion
    /\ win' = [win EXCEPT !.remote = win.remote + 1, !.updated_at = win.now,
                  !.late = IF win.status = "syncing" /\ win.page = 2
                           THEN "during" ELSE "no"]
    /\ UNCHANGED <<core, ui, tags>>

\* startSync, lines 53-66: status syncing, lastCursor null, lastSyncAt kept.
window_startSync ==
    /\ win.status = "idle"
    /\ win' = [win EXCEPT !.status = "syncing", !.page = 1]
    /\ UNCHANGED <<core, ui, tags>>

\* Whether the upstream list holds the document for this lower bound; a
\* document updated at the very instant of the bound may or may not be listed.
Listed(updated_at, updatedAfter, atBound) ==
    \/ updatedAfter = NoTime
    \/ updated_at > updatedAfter
    \/ updated_at = updatedAfter /\ atBound

\* Line 111: updatedAfter: syncState.lastSyncAt?.toISOString().
WindowParams(lastSyncAt) == lastSyncAt

\* syncNextBatch on the page that holds the document when it is listed, lines
\* 108-123 and 130-143 with hasMore true: the copy is upserted, the cursor moves.
window_firstPage ==
    /\ win.status = "syncing" /\ win.page = 1
    /\ \E atBound \in BOOLEAN :
          win' = [win EXCEPT !.page = 2,
                     !.stored = IF Listed(win.updated_at, WindowParams(win.lastSyncAt), atBound)
                                THEN win.remote ELSE win.stored]
    /\ UNCHANGED <<core, ui, tags>>

\* syncNextBatch on the last page, lines 125-143 with hasMore false: status
\* idle and lastSyncAt = new Date().
window_lastPage ==
    /\ win.status = "syncing" /\ win.page = 2
    /\ win' = [win EXCEPT !.status = "idle", !.page = 1, !.lastSyncAt = win.now,
                  !.late = IF win.late = "during"
                           THEN (IF win.updated_at < win.now THEN "owed" ELSE "no")
                           ELSE IF win.late = "owed" THEN "due"
                           ELSE win.late]
    /\ UNCHANGED <<core, ui, tags>>

(* ------------------------------------------------- the UI-driven sync loop *)
\* The component and the server actions it awaits, joined: a call the
\* component issued is served by the handler, and what the handler returns is
\* what the component's await receives.

\* The server receives the startSync call the component is awaiting.
await_startSync ==
    /\ ui.calls = <<"startSync">>
    /\ ret.op = "none"
    /\ startSync

\* The server receives the syncNextBatch call the component is awaiting.
await_syncNextBatch ==
    /\ ui.calls = <<"syncNextBatch">>
    /\ ret.op = "none"
    /\ syncNextBatch_call

\* The handler has returned and the await resumes with its report (lines 66-67
\* and 86-88).  A server round trip does not outrun a render: the updates
\* queued when the call was issued are committed by then.
await_settled ==
    /\ Quiescent
    /\ ui.calls # <<>>
    /\ ret.op = ui.calls[1]
    /\ <<ui.setIsLoading, ui.setProgress>> = <<ui.isLoading, ui.progress>>
    /\ ui' = Settled(1, [status |-> ret.status, hasMore |-> ret.hasMore])
    /\ ret' = NoRet
    /\ UNCHANGED <<apiToken, syncState, documents, clock, adv, cron, arch, mark, upstream,
                   api, serial, tags, win, peer>>

(* ---------------------------------------------------------- specifications *)
InitCommon ==
    /\ apiToken = TRUE
    /\ syncState = NoRow
    /\ documents = {}
    /\ clock = 1
    /\ adv = AdvIdle
    /\ cron = CronIdle
    /\ arch = ArchIdle
    /\ ret = NoRet
    /\ mark = NoMark
    /\ api = ApiInit
    /\ serial = TRUE
    /\ ui = UiInit
    /\ tags = NoTags
    /\ win = WinInit
    /\ peer = AdvIdle

\* The upstream library holds documents created at one time.
Init ==
    /\ InitCommon
    /\ upstream = {d \in UpDocs : d.created_at = 1 /\ d.updated_at = 1}

\* The upstream library also holds representations whose created_at differs.
InitDocs ==
    /\ InitCommon
    /\ upstream = {d \in UpDocs : d.updated_at = 1}

\* The upstream library holds one unmoved document whose created_at and
\* updated_at differ from one representation to the next.
InitStamps ==
    /\ InitCommon
    /\ upstream = {d \in UpDocs : d.id = 1 /\ d.location = "later"}

Next ==
    \/ Tick
    \/ saveApiToken
    \/ deleteApiToken
    \/ startSync
    \/ syncNextBatch_call
    \/ syncNextBatch_fetched
    \/ syncNextBatch_fetchFailed
    \/ syncNextBatch_upsert
    \/ syncNextBatch_upsertFailed
    \/ syncNextBatch_finish
    \/ clearError
    \/ skipProblematicCursor
    \/ resetSync
    \/ GET_call
    \/ GET_fetched
    \/ GET_fetchFailed
    \/ GET_upsert
    \/ GET_upsertFailed
    \/ GET_nextPage
    \/ GET_finish
    \/ archiveDocuments_call
    \/ batchArchive_archived
    \/ batchArchive_rejected
    \/ batchArchive_return
    \/ archiveDocuments_finish

\* The handlers, run one at a time (the single-writer discipline of the design).
Spec == Init /\ [][Next]_vars

\* The scheduled sync and the UI-driven cycle with nothing to keep them apart:
\* the route and the server actions run in separate requests.
InitRace ==
    /\ apiToken = TRUE
    /\ syncState = NoRow
    /\ documents = {}
    /\ clock = 1
    /\ adv = AdvIdle
    /\ cron = CronIdle
    /\ arch = ArchIdle
    /\ ret = NoRet
    /\ mark = NoMark
    /\ api = ApiInit
    /\ serial = FALSE
    /\ ui = UiInit
    /\ tags = NoTags
    /\ win = WinInit
    /\ peer = AdvIdle
    /\ upstream = {d \in UpDocs : d.created_at = 1 /\ d.updated_at = 1 /\ d.location = "later"}

NextRace ==
    \/ startSync
    \/ syncNextBatch_call
    \/ syncNextBatch_fetched
    \/ syncNextBatch_fetchFailed
    \/ syncNextBatch_upsert
    \/ syncNextBatch_upsertFailed
    \/ syncNextBatch_finish
    \/ GET_call
    \/ GET_fetched
    \/ GET_fetchFailed
    \/ GET_upsert
    \/ GET_upsertFailed
    \/ GET_nextPage
    \/ GET_finish

SpecRace == InitRace /\ [][NextRace]_vars

NextUI ==
    \/ Render
    \/ loadSyncState
    \/ handleStartSync_click
    \/ continueSync_timer
    \/ handleStartSync_finally
    \/ continueSync_finally
    \/ handleOther_click
    \/ handleOther_finally

\* The SyncControls component against a server that may answer anything.
SpecUI == Init /\ [][NextUI]_vars

NextTags ==
    \/ transformDocument_tags
    \/ GET_tags

\* The conversion of the tag collection over every input within the bounds.
SpecTags == Init /\ [][NextTags]_vars

NextWindow ==
    \/ window_tick
    \/ upstream_modify
    \/ window_startSync
    \/ window_firstPage
    \/ window_lastPage

\* Sync cycles against an upstream library that changes while they run.
SpecWindow == Init /\ [][NextWindow]_vars

NextReset ==
    \/ startSync
    \/ syncNextBatch_call
    \/ syncNextBatch_fetched
    \/ syncNextBatch_fetchFailed
    \/ syncNextBatch_upsert
    \/ syncNextBatch_upsertFailed
    \/ syncNextBatch_finish
    \/ resetSync

\* The UI-driven cycle with a reset that does not wait for the step in flight.
SpecReset == InitRace /\ [][NextReset]_vars

\* Two requests against the empty database and an upstream library of one document.
InitTwin ==
    /\ apiToken = TRUE
    /\ syncState = NoRow
    /\ documents = {}
    /\ clock = 1
    /\ adv = AdvIdle
    /\ cron = CronIdle
    /\ arch = ArchIdle
    /\ ret = NoRet
    /\ mark = NoMark
    /\ api = ApiInit
    /\ serial = FALSE
    /\ ui = UiInit
    /\ tags = NoTags
    /\ win = WinInit
    /\ peer = AdvIdle
    /\ upstream = {d \in UpDocs : /\ d.id = 1 /\ d.created_at = 1 /\ d.updated_at = 1
                                  /\ d.location = "later"}

NextTwin ==
    \/ startSync
    \/ syncNextBatch_call
    \/ syncNextBatch_fetched
    \/ syncNextBatch_fetchFailed
    \/ syncNextBatch_upsert
    \/ syncNextBatch_upsertFailed
    \/ syncNextBatch_finish
    \/ peer_call
    \/ peer_fetched
    \/ peer_fetchFailed
    \/ peer_upsert
    \/ peer_upsertFailed
    \/ peer_finish

\* Two requests running syncNextBatch against the same record.
SpecTwin == InitTwin /\ [][NextTwin]_vars

NextLoop ==
    \/ Render
    \/ handleStartSync_click
    \/ continueSync_timer
    \/ await_startSync
    \/ await_syncNextBatch
    \/ syncNextBatch_fetched
    \/ syncNextBatch_fetchFailed
    \/ syncNextBatch_upsert
    \/ syncNextBatch_upsertFailed
    \/ syncNextBatch_finish
    \/ await_settled

\* The page that ends a cycle arrives, or the request fails.
LastPage ==
    \/ syncNextBatch_fetched /\ ~HasMore(adv'.next, adv'.n)
    \/ syncNextBatch_fetchFailed

\* The browser runs renders and due timers, the server runs the handlers it
\* was sent and every request is answered; the page that ends the cycle, or
\* an error, comes at last.  The user's clicks are under no obligation.
FairLoop ==
    /\ WF_vars(Render)
    /\ WF_vars(continueSync_timer)
    /\ WF_vars(await_startSync)
    /\ WF_vars(await_syncNextBatch)
    /\ WF_vars(syncNextBatch_fetched \/ syncNextBatch_fetchFailed)
    /\ WF_vars(syncNextBatch_upsert \/ syncNextBatch_upsertFailed)
    /\ WF_vars(syncNextBatch_finish)
    /\ WF_vars(await_settled)
    /\ SF_vars(LastPage)

\* One SyncControls component driving the sync through the server actions.
SpecLoop == Init /\ [][NextLoop]_vars /\ FairLoop

\* The same handlers over the richer upstream library.
SpecDocs == InitDocs /\ [][Next]_vars

\* The same handlers over documents that differ in their two timestamps.
SpecStamps == InitStamps /\ [][Next]_vars

NextClient ==
    \/ ClientTick
    \/ createReadwiseClient
    \/ rateLimitedFetch_call
    \/ rateLimitedFetch_admitted
    \/ rateLimitedFetch_send
    \/ rateLimitedFetch_response
    \/ rateLimitedFetch_networkError
    \/ rateLimitedFetch_retry

\* The API client alone: the calls of successive handlers, each on a client of its own.
SpecClient == Init /\ [][NextClient]_vars

(* ------------------------------------------------------------------ claims *)
\* A syncNextBatch invocation returns through its finish (success) or its catch.
AdvReturns == adv.pc # "idle" /\ adv'.pc = "idle"

\* C1: a successful advance step whose page has no next cursor or no results
\* leaves status idle and reports completed with hasMore = false.
C1_TerminalDetection ==
    [][(AdvReturns /\ ret'.status # "error" /\ (adv.next = NullCursor \/ adv.n = 0))
         => (/\ syncState'.status = "idle"
             /\ ret'.hasMore = FALSE
             /\ ret'.status = "completed")]_vars

\* C1 witness: an empty page that still carried a cursor ended a cycle that had
\* stored documents before.
C1_Witness ==
    /\ ret.op = "syncNextBatch" /\ ret.status = "completed" /\ ret.currentBatch = 0
    /\ syncState.status = "idle" /\ syncState.lastCursor # NullCursor
    /\ syncState.totalSynced > 0

\* C2: a failed advance step leaves status error and leaves lastCursor,
\* totalSynced and lastSyncAt as they were when the step began.
C2_FailureKeepsCursor ==
    [][(AdvReturns /\ ret'.status = "error")
         => (/\ syncState'.status = "error"
             /\ syncState'.lastCursor = adv.syncState.lastCursor
             /\ syncState'.totalSynced = adv.syncState.totalSynced
             /\ syncState'.lastSyncAt = adv.syncState.lastSyncAt)]_vars

\* C2 witness: an upsert failed on a later page, after part of that page was stored.
C2_Witness ==
    /\ ret.op = "syncNextBatch" /\ ret.status = "error" /\ ret.error = "Failed to upsert"
    /\ syncState.status = "error" /\ syncState.lastCursor # NullCursor
    /\ Count(documents) > syncState.totalSynced

\* C3 (as claimed): the page fetch that follows a failure at cursor C and
\* clearError carries the cursor C.
C3_RetryRefetchesSameCursor ==
    (adv.pc = "fetch" /\ mark.kind = "retry") => adv.req.pageCursor = mark.cursor

\* C4 (as claimed): whenever no handler is in progress, totalSynced is the
\* number of stored documents.
C4_TotalIsCount ==
    Quiescent => (IF syncState.exists THEN syncState.totalSynced ELSE 0) = Count(documents)

\* C5 (as claimed, read at its weakest for advance): once advance has reported
\* status error the persisted status is not left at syncing, and once the
\* scheduled sync has answered 500 the persisted status is error.
C5_ErrorReportedIsPersisted ==
    /\ (ret.op = "syncNextBatch" /\ ret.status = "error")
          => ~(syncState.exists /\ syncState.status = "syncing")
    /\ (ret.op = "GET" /\ ret.http = 500) => syncState.status = "error"

\* C5 (amended): whenever advance has reported a failure of the fetch or of an
\* upsert, or the scheduled sync has answered 500, the persisted status is error.
C5_FailedStepIsPersisted ==
    /\ (ret.op = "syncNextBatch" /\ ret.status = "error"
        /\ ret.error # "No API token configured")
          => (syncState.exists /\ syncState.status = "error")
    /\ (ret.op = "GET" /\ ret.http = 500) => syncState.status = "error"

\* C5 witness: an advance step reported a failed fetch.
C5_Witness ==
    /\ ret.op = "syncNextBatch" /\ ret.status = "error"
    /\ ret.error = "Failed to fetch documents"
    /\ syncState.status = "error"

\* C6 (as claimed): two consecutive requests to upstream are at least
\* MinRequestInterval apart.
C6_RequestSpacing == api.gap >= MinRequestInterval

\* C7: after skipProblematicCursor at time T the state is idle, without cursor
\* or message, with lastSyncAt = T, and the first fetch of the next cycle sends
\* updatedAfter = T and no cursor.
C7_SkipSemantics ==
    /\ ret.op = "skipProblematicCursor"
          => (/\ mark.kind = "skip"
              /\ syncState.status = "idle"
              /\ syncState.lastCursor = NullCursor
              /\ syncState.errorMsg = NullMsg
              /\ syncState.lastSyncAt = mark.time)
    /\ (mark.kind = "skip" /\ adv.pc = "fetch")
          => (adv.req.pageCursor = NullCursor /\ adv.req.updatedAfter = mark.time)
    /\ (mark.kind = "skip" /\ cron.pc = "fetch")
          => (cron.req.pageCursor = NullCursor /\ cron.req.updatedAfter = mark.time)

\* C7 witness: the first fetch after a skip made at a later time than the
\* cycle's start is in flight.
C7_Witness ==
    /\ mark.kind = "skip" /\ mark.time > 1
    /\ adv.pc = "fetch" /\ adv.req.updatedAfter = mark.time

\* An upsert of the step-wise or of the scheduled sync, and the document it wrote.
UpsertStep == adv'.i = adv.i + 1 \/ cron'.i = cron.i + 1

ByCron == cron'.i = cron.i + 1

Written == IF ByCron THEN cron'.doc ELSE adv'.doc

UniqueReadwiseId ==
    \A r1, r2 \in documents : r1.readwiseId = r2.readwiseId => r1 = r2

C9_BatchArchive ==
    /\ [](arch.pc \in {"batch", "update"} =>
            /\ arch.attempts = SubSeq(arch.ids, 1, arch.i)
            /\ Len(arch.success) + Len(arch.failed) = arch.i
            /\ \A k \in 1..arch.i :
                  (arch.ids[k] \in SeqToSet(arch.success))
                     # (arch.ids[k] \in SeqToSet(arch.failed)))
    /\ [](arch.pc = "update" => arch.i = Len(arch.ids))
    /\ [][(arch.pc = "update" /\ arch'.pc = "idle")
            => ret'.success + ret'.failed = Len(arch.ids)]_vars

\* C9 witness: the first id failed and the second was still attempted, and succeeded.
C9_Witness ==
    /\ arch.pc = "update" /\ Len(arch.ids) = 2
    /\ arch.failed = <<arch.ids[1]>> /\ arch.success = <<arch.ids[2]>>

\* C10: archiveDocuments changes exactly the stored documents upstream accepted,
\* and of them only location and lastMovedAt; the SyncState row is untouched.
C10_ArchiveFrame ==
    /\ [][(arch.pc = "update" /\ arch'.pc = "idle") =>
            /\ \A r \in documents :
                  IF r.readwiseId \in SeqToSet(arch.success)
                  THEN [r EXCEPT !.location = "archive", !.lastMovedAt = clock]
                          \in documents'
                  ELSE r \in documents'
            /\ Cardinality(documents') = Cardinality(documents)
            /\ syncState' = syncState]_vars
    /\ [][(arch.pc = "batch" \/ arch'.pc = "batch")
            => (documents' = documents /\ syncState' = syncState)]_vars

\* C10 witness: of two stored documents one was accepted and moved now, the
\* other was rejected and stays where it was.
C10_Witness ==
    /\ ret.op = "archiveDocuments" /\ ret.success = 1 /\ ret.failed = 1
    /\ \E r1, r2 \in documents :
          /\ r1.location = "archive" /\ r1.lastMovedAt = clock
          /\ r2.location = "later" /\ r2.readwiseId \in SeqToSet(ret.errors)

\* The persisted status is syncing.
IsSyncing == syncState.exists /\ syncState.status = "syncing"

\* C11: the scheduled sync invoked while the status is syncing fetches nothing,
\* writes no document and leaves the SyncState record as it is.
C11_ScheduledRejectsWhileSyncing ==
    [][(Quiescent /\ IsSyncing) =>
          /\ cron' = CronIdle
          /\ (ret'.op = "GET" /\ ret' # ret)
                => (syncState' = syncState /\ documents' = documents)]_vars

\* C11 witness: the scheduled sync answered "already in progress" during a
\* step-wise cycle that had stored a page.
C11_Witness ==
    /\ ret.op = "GET" /\ ret.http = 200
    /\ IsSyncing /\ syncState.lastCursor # NullCursor
    /\ Quiescent

\* C12 (as claimed): once all rows of a page with no next cursor or with no
\* results are stored, the scheduled sync fetches no further page: it sets
\* status idle and returns.
C12_ScheduledTerminalRule ==
    [][(/\ cron.pc = "upsert" /\ cron.i = cron.n
        /\ (cron.next = NullCursor \/ cron.n = 0)
        /\ cron' # cron)
          => (cron'.pc = "idle" /\ syncState'.status = "idle")]_vars

\* C13 (as claimed): clearError invoked in status error leaves status syncing,
\* errorMsg cleared and lastCursor unchanged.
C13_ClearErrorResumes ==
    [][(/\ Quiescent /\ syncState.exists /\ syncState.status = "error"
        /\ ret'.op = "clearError" /\ ret' # ret)
          => (/\ syncState'.status = "syncing"
              /\ syncState'.errorMsg = NullMsg
              /\ syncState'.lastCursor = syncState.lastCursor)]_vars

\* C14 (as claimed): startSync invoked while the status is syncing changes
\* nothing in SyncState and returns syncing with the persisted totalSynced.
C14_StartSyncIdempotent ==
    [][(Quiescent /\ IsSyncing /\ ret'.op = "startSync" /\ ret' # ret)
          => (/\ syncState' = syncState
              /\ ret'.status = "syncing"
              /\ ret'.totalSynced = syncState.totalSynced)]_vars

\* C14 (amended): startSync invoked while the status is syncing changes nothing
\* in SyncState; with an API token configured it returns syncing with the
\* persisted totalSynced, without one it returns error.
C14_StartSyncIdempotentWithToken ==
    [][(Quiescent /\ IsSyncing /\ ret'.op = "startSync" /\ ret' # ret)
          => (/\ syncState' = syncState
              /\ documents' = documents
              /\ IF apiToken
                 THEN /\ ret'.status = "syncing"
                      /\ ret'.totalSynced = syncState.totalSynced
                 ELSE ret'.status = "error")]_vars

\* C14 witness: startSync has reported the progress of a running cycle that is
\* past its first page.
C14_Witness ==
    /\ ret.op = "startSync" /\ ret.status = "syncing" /\ ret.totalSynced > 0
    /\ IsSyncing /\ syncState.lastCursor # NullCursor
    /\ ret.totalSynced = syncState.totalSynced

\* C15: advance invoked while the status is not syncing sends no request,
\* writes no document and leaves the SyncState record as it is.
C15_AdvanceOnlyWhileSyncing ==
    [][(Quiescent /\ ~IsSyncing) =>
          /\ adv' = AdvIdle
          /\ (ret'.op = "syncNextBatch" /\ ret' # ret)
                => (syncState' = syncState /\ documents' = documents)]_vars

\* C15 witness: advance was invoked in status error and reported idle.
C15_Witness ==
    /\ ret.op = "syncNextBatch" /\ ret.status = "idle"
    /\ syncState.exists /\ syncState.status = "error"
    /\ Quiescent

\* C16 (as claimed): a page fetch that carries a cursor sends no updatedAfter.
C16_LowerBoundOnFirstPageOnly ==
    /\ (adv.pc = "fetch" /\ adv.req.pageCursor # NullCursor)
          => adv.req.updatedAfter = NoTime
    /\ (cron.pc = "fetch" /\ cron.req.pageCursor # NullCursor)
          => cron.req.updatedAfter = NoTime

\* C16 (amended): every page fetch of a cycle, with or without a cursor, sends
\* the persisted lastSyncAt as updatedAfter (nothing when it is null); advance
\* sends the persisted cursor with it.
C16_LowerBoundOnEveryPage ==
    /\ adv.pc = "fetch"
          => (/\ adv.req.updatedAfter = syncState.lastSyncAt
              /\ adv.req.pageCursor = syncState.lastCursor)
    /\ cron.pc = "fetch"
          => (/\ cron.req.updatedAfter = syncState.lastSyncAt
              /\ cron.req.pageCursor = cron.cursor)

\* C16 witness: a later page of a cycle is being fetched with a cursor and with
\* the lower bound of an earlier completed cycle.
C16_Witness ==
    /\ adv.pc = "fetch"
    /\ adv.req.pageCursor # NullCursor
    /\ adv.req.updatedAfter # NoTime

\* rateLimitedFetch has received a response with this status.
Answered(status) ==
    api.pc = "wait" /\ api'.pc # "wait" /\ ~api'.threw /\ api'.status = status

\* C17: a 429 is never handed to the caller: the client waits the Retry-After
\* seconds, or 2 x minInterval without the header, and sends the request again,
\* however many 429s came before; the retry count of the 500s is not touched.
C17_ThrottleRecovered ==
    /\ [](api.pc = "idle" => api.status # 429)
    /\ [][Answered(429) =>
            /\ api'.pc = "sleep"
            /\ api'.timer = IF api'.retryAfter # <<>> THEN api'.retryAfter[1]
                            ELSE 2 * MinRequestInterval
            /\ api'.method = api.method]_vars
    /\ [][(api.pc = "sleep" /\ api.status = 429 /\ api'.pc # "sleep") =>
            /\ api.timer = 0
            /\ api'.pc \in {"admit", "send"}
            /\ api'.method = api.method]_vars

\* C17 witness: every request the call has sent so far, MaxAttempts of them,
\* was answered 429, the last one without Retry-After, and the call waits again.
C17_Witness ==
    /\ api.pc = "sleep" /\ api.status = 429 /\ api.retryAfter = <<>>
    /\ api.attempts = MaxAttempts /\ api.retryCount = 0
    /\ api.timer = 2 * MinRequestInterval

\* C18: within one call a 500 is retried at most 3 times, after waits of 2 s,
\* 4 s and 8 s; a 500 after the third retry goes to the caller; a 429 neither
\* resets nor uses up the retries.
C18_ServerErrorBackoff ==
    /\ [](api.retryCount <= 3)
    /\ [][Answered(500) =>
            IF api.retryCount < 3
            THEN /\ api'.pc = "sleep"
                 /\ api'.timer = <<2, 4, 8>>[api.retryCount + 1]
                 /\ api'.retryCount = api.retryCount + 1
            ELSE /\ api'.pc = "idle"
                 /\ api'.retryCount = api.retryCount
                 /\ api'.result \in {"throws", "false"}]_vars
    /\ [][Answered(429) => api'.retryCount = api.retryCount]_vars
    /\ [][api'.retryCount # api.retryCount =>
            (Answered(500) \/ (api.pc = "idle" /\ api'.retryCount = 0))]_vars

\* C18 witness: fetchDocuments raised on the fourth 500 of a call that was
\* also throttled in between.
C18_Witness ==
    /\ api.pc = "idle" /\ api.status = 500 /\ api.retryCount = 3
    /\ api.throttled /\ api.method = "fetchDocuments" /\ api.result = "throws"

\* C19: a non-success response other than 429 and 500 is handed to the caller
\* at once, without wait or retry, and the calling method raises; a call whose
\* first response is of that kind has sent exactly one request.
C19_OtherStatusSurfaces ==
    /\ [][(\E status \in Statuses \ {429, 500} : ~Ok(status) /\ Answered(status)) =>
            /\ api'.pc = "idle"
            /\ api'.timer = 0
            /\ api'.retryCount = api.retryCount
            /\ api'.attempts = api.attempts
            /\ api.method # "validateToken" => api'.result = "throws"]_vars
    /\ [](( /\ api.pc = "idle" /\ api.result # "none" /\ ~api.threw
            /\ ~Ok(api.status) /\ api.status \notin {429, 500}
            /\ api.retryCount = 0 /\ ~api.throttled)
             => api.attempts = 1)

\* C19 witness: fetchDocuments raised on a 502 after one request.
C19_Witness ==
    /\ api.pc = "idle" /\ api.status = 502 /\ api.attempts = 1
    /\ api.method = "fetchDocuments" /\ api.result = "throws"

\* C20: validateToken hands back true or false and never raises: true exactly
\* when the response that ended the call has status 204, false for every other
\* status and when fetch raised.
C20_ValidateTokenTotal ==
    (api.pc = "idle" /\ api.method = "validateToken" /\ api.result # "none")
       => /\ api.result \in {"true", "false"}
          /\ api.result = "true" <=> (~api.threw /\ api.status = 204)

\* C20 witness: fetch raised inside validateToken and the method returned false.
C20_Witness ==
    /\ api.pc = "idle" /\ api.method = "validateToken"
    /\ api.threw /\ api.result = "false"

\* C21: after resetSync, whatever the state before, the record is idle with no
\* cursor, no lastSyncAt, no message and totalSynced 0, and no document is stored.
C21_ResetClearsAll ==
    ret.op = "resetSync"
       => /\ syncState.exists
          /\ syncState.status = "idle"
          /\ syncState.lastCursor = NullCursor
          /\ syncState.lastSyncAt = NoTime
          /\ syncState.totalSynced = 0
          /\ syncState.errorMsg = NullMsg
          /\ documents = {}

\* C21 witness: resetSync has returned.
C21_Witness ==
    /\ ret.op = "resetSync" /\ Quiescent
    /\ syncState.exists /\ documents = {}

\* C22: an advance step whose page is non-empty and carries a next cursor c
\* leaves status syncing and lastCursor = c and reports hasMore with the size
\* of the page as batch size.
C22_ContinueOnFullPage ==
    [][(AdvReturns /\ ret'.status # "error" /\ adv.n > 0 /\ adv.next # NullCursor)
         => (/\ syncState'.status = "syncing"
             /\ syncState'.lastCursor = adv.next
             /\ ret'.status = "syncing"
             /\ ret'.hasMore = TRUE
             /\ ret'.currentBatch = adv.n)]_vars

\* C22 witness: a step stored a page of two documents and goes on at its cursor.
C22_Witness ==
    /\ ret.op = "syncNextBatch" /\ ret.status = "syncing" /\ ret.hasMore
    /\ ret.currentBatch = 2
    /\ IsSyncing /\ syncState.lastCursor # NullCursor

\* A step of syncNextBatch that ends a cycle.
CycleCompletes == AdvReturns /\ ret'.status = "completed"

\* The scheduled sync returns after its last page.
ScheduledCompletes == cron.pc = "upsert" /\ cron'.pc = "idle" /\ ret'.http = 200

\* C24: lastSyncAt becomes the current time when an advance step completes the
\* cycle; otherwise only skipProblematicCursor, the completion of the scheduled
\* sync (both: the current time) and resetSync (null) change it.
C24_LastSyncAtFrame ==
    [][/\ CycleCompletes => syncState'.lastSyncAt = clock
       /\ syncState'.lastSyncAt # syncState.lastSyncAt =>
            \/ CycleCompletes
            \/ ret'.op = "skipProblematicCursor" /\ syncState'.lastSyncAt = clock
            \/ ScheduledCompletes /\ syncState'.lastSyncAt = clock
            \/ ret'.op = "resetSync" /\ syncState'.lastSyncAt = NoTime]_vars

\* C24 witness: a cycle was completed by an advance step at a later time than
\* the module's first instant.
C24_Witness ==
    /\ ret.op = "syncNextBatch" /\ ret.status = "completed"
    /\ syncState.lastSyncAt = clock /\ clock > 1

\* The readwiseIds of the stored documents.
StoredIds == {r.readwiseId : r \in documents}

\* C26: no step but resetSync takes a readwiseId out of the stored documents.
C26_OnlyResetDeletes ==
    [][\/ StoredIds \subseteq StoredIds'
       \/ ret'.op = "resetSync" /\ documents' = {}]_vars

\* C26 witness: two documents are still stored after a failed step and an
\* archive call that moved one of them.
C26_Witness ==
    /\ Count(documents) = 2
    /\ ret.op = "archiveDocuments" /\ ret.success = 1
    /\ syncState.exists /\ syncState.status = "error"

\* C27: without an API token startSync, advance and archiveDocuments return an
\* error result at once: no handler gets as far as a request, the record and
\* the documents stay, and archiveDocuments reports 0 successes and every
\* requested id as failed.
C27_NoTokenNoEffect ==
    [][(Quiescent /\ ~apiToken) =>
          /\ adv'.pc = "idle" /\ cron'.pc = "idle" /\ arch'.pc = "idle"
          /\ (ret' # ret /\ ret'.op \in {"startSync", "syncNextBatch", "archiveDocuments"})
                => /\ syncState' = syncState
                   /\ documents' = documents
                   /\ ret'.op \in {"startSync", "syncNextBatch"}
                         => ret'.status = "error"
                   /\ ret'.op = "archiveDocuments"
                         => /\ ret'.success = 0
                            /\ ret'.failed = ret'.requested
                            /\ ret'.errors = <<"No API token configured">>]_vars

\* C27 witness: archiveDocuments was asked for two ids without a token.
C27_Witness ==
    /\ ~apiToken /\ Quiescent
    /\ ret.op = "archiveDocuments" /\ ret.requested = 2
    /\ ret.success = 0 /\ ret.failed = 2
    /\ Count(documents) = 2

\* C23: in a cycle driven by one caller the cursor sent with a page request is
\* the persisted lastCursor; a cycle starts with none; while the cycle runs the
\* persisted cursor moves only when a step has applied its page, and then to
\* the next cursor that page carried; and no two page requests are in flight.
C23_CursorChain ==
    [][/\ (adv.pc = "idle" /\ adv'.pc = "fetch")
            => /\ IsSyncing
               /\ adv'.req.pageCursor = syncState.lastCursor
       /\ (~IsSyncing /\ IsSyncing' /\ ret'.op = "startSync")
            => syncState'.lastCursor = NullCursor
       /\ (IsSyncing /\ IsSyncing' /\ syncState'.lastCursor # syncState.lastCursor)
            => /\ AdvReturns /\ ret'.status = "syncing"
               /\ adv.i = adv.n
               /\ syncState'.lastCursor = adv.next
       /\ (adv.pc = "fetch" /\ adv'.pc # "fetch")
            => adv'.pc \in {"upsert", "idle"}
       /\ ~(adv'.pc = "fetch" /\ cron'.pc = "fetch")]_vars

\* C23 witness: a page was applied and the request for the page after it is in
\* flight with the cursor that page carried.
C23_Witness ==
    /\ adv.pc = "fetch" /\ adv.req.pageCursor = "c2"
    /\ IsSyncing /\ syncState.lastCursor = "c2"
    /\ syncState.totalSynced = 2

\* C30: while the scheduled sync is running no UI-driven step is between its
\* request and its return, so that at most one driver fetches pages and writes
\* the cursor and the status.
C30_SingleDriver == ~(cron.pc # "idle" /\ adv.pc # "idle")

\* C25: the UI sync controller never has two sync server calls (startSync or
\* syncNextBatch) outstanding: whatever the order of timer firings, clicks,
\* renders and answers, a call is issued only when the one before has returned.
C25_OneCallOutstanding ==
    /\ Len(ui.calls) <= 1
    /\ Len(ui.calls) = 1 => ui.syncingRef

\* C25 witness: a sync call is outstanding while the component, as rendered and
\* as queued, is not loading and the Start button is enabled.
C25_Witness ==
    /\ Len(ui.calls) = 1
    /\ ~ui.isLoading /\ ~ui.setIsLoading
    /\ ~isSyncing(ui.progress)

\* The names of a sequence of tag objects hold no name twice.
NoNameTwice(seq) == \A i, j \in 1..Len(seq) : seq[i] = seq[j] => i = j

OutPosition(m, i) ==
    IF m[i].key.numeric
    THEN 1 + Cardinality({j \in 1..Len(m) : m[j].key.numeric /\ m[j].key.ord < m[i].key.ord})
    ELSE Cardinality({j \in 1..Len(m) : m[j].key.numeric})
            + Cardinality({j \in 1..i : ~m[j].key.numeric})

C29_NoUpdateLost == win.late = "due" => win.stored = win.remote

\* C32: syncNextBatch called with a token while the persisted status is not
\* syncing reports the persisted state: its status and its totalSynced.
C32_ReportsPersistedState ==
    [][(/\ Quiescent /\ apiToken /\ syncState.exists /\ ~IsSyncing
        /\ ret' # ret /\ ret'.op = "syncNextBatch")
          => /\ ret'.status = syncState.status
             /\ ret'.totalSynced = syncState.totalSynced]_vars

\* C33: whenever no handler is running, a message is stored exactly when the
\* persisted status is error.
C33_MessageIffError ==
    Quiescent =>
       (syncState.errorMsg # NullMsg <=> (syncState.exists /\ syncState.status = "error"))

\* C33 witness: the scheduled sync failed and left status error with a message.
C33_Witness ==
    /\ Quiescent /\ ret.op = "GET"
    /\ syncState.status = "error" /\ syncState.errorMsg # NullMsg

\* C34: a progress report of startSync or syncNextBatch (called with a token)
\* carries the totalSynced persisted when it returns, and hasMore exactly when
\* the status persisted then is syncing.
C34_ReportMatchesRow ==
    [][(/\ apiToken /\ syncState'.exists
        /\ ret' # ret /\ ret'.op \in {"startSync", "syncNextBatch"})
          => /\ ret'.totalSynced = syncState'.totalSynced
             /\ ret'.hasMore <=> syncState'.status = "syncing"]_vars

\* C37: startSync called with a token on a record that is not syncing leaves it
\* syncing with no cursor, whatever cursor was stored; the request of the step
\* that follows carries the stored cursor, and while the cycle runs only a step
\* that applied its page stores one.
C37_CycleStartsAtBeginning ==
    [][/\ (/\ Quiescent /\ apiToken /\ ~IsSyncing
           /\ ret' # ret /\ ret'.op = "startSync")
             => /\ IsSyncing'
                /\ syncState'.lastCursor = NullCursor
       /\ (adv.pc = "idle" /\ adv'.pc = "fetch")
             => adv'.req.pageCursor = syncState.lastCursor
       /\ (IsSyncing /\ IsSyncing' /\ syncState.lastCursor = NullCursor
              /\ syncState'.lastCursor # NullCursor)
             => AdvReturns /\ ret'.status = "syncing"]_vars

\* C37 witness: an earlier cycle was completed, a new one was started and the
\* request for its first page is in flight without a cursor.
C37_Witness ==
    /\ adv.pc = "fetch" /\ adv.req.pageCursor = NullCursor
    /\ IsSyncing /\ syncState.lastSyncAt # NoTime
    /\ syncState.totalSynced = 2

\* The row stored under the readwiseId an upsert has just written.
StoredAfter == {r \in documents' : r.readwiseId = Written.id}

C38_ResetIsFinal ==
    [][(/\ adv.pc # "idle" /\ adv' # adv
        /\ adv.syncState.status = "syncing"
        /\ syncState.exists /\ syncState.status = "idle")
          => /\ documents' = documents
             /\ syncState' = syncState]_vars

\* C31: the check at the top of syncNextBatch looks at the persisted status
\* only: with a token and status syncing no call is turned away, whether or
\* not another invocation is in flight; each invocation that passes takes the
\* record as it stands and requests the page of the stored cursor; and an
\* invocation writes the record only when it returns.  So two invocations can
\* be fetching the page of the same cursor.
C31_StatusGuardAdmitsBoth ==
    [][/\ (apiToken /\ IsSyncing /\ ret' # ret /\ ret'.op = "syncNextBatch")
             => (adv' # adv \/ peer' # peer)
       /\ (adv.pc = "idle" /\ adv'.pc = "fetch")
             => /\ adv'.syncState = syncState
                /\ adv'.req.pageCursor = syncState.lastCursor
       /\ (peer.pc = "idle" /\ peer'.pc = "fetch")
             => /\ peer'.syncState = syncState
                /\ peer'.req.pageCursor = syncState.lastCursor
       /\ (syncState' # syncState /\ ret'.op # "startSync")
             => \/ adv.pc # "idle" /\ adv'.pc = "idle"
                \/ peer.pc # "idle" /\ peer'.pc = "idle"]_vars

\* C31 witness: both invocations have passed the check and both wait for the
\* page of the same cursor.
C31_Witness ==
    /\ adv.pc = "fetch" /\ peer.pc = "fetch"
    /\ adv.req.pageCursor = "c1" /\ peer.req.pageCursor = "c1"
    /\ IsSyncing

\* The component issues a syncNextBatch call.
IssuesAdvance ==
    /\ Len(ui'.calls) = Len(ui.calls) + 1
    /\ ui'.calls[Len(ui'.calls)] = "syncNextBatch"

\* C36: under one UI driver a cycle that was started comes to persisted status
\* idle or error; and after a result other than syncing-with-more the driver
\* issues no syncNextBatch until a user action changes the progress.
C36_LoopTerminates ==
    /\ IsSyncing ~> (syncState.exists /\ syncState.status \in {"idle", "error"})
    /\ [][(ui.setProgress.status \in {"completed", "idle", "error"}
              \/ ~ui.setProgress.hasMore) => ~IssuesAdvance]_vars

\* C36 witness: the loop fetched a page of two, went on, met the last page and
\* stopped: the record is idle, the component shows completed, no timer is set
\* and no call is awaited.
C36_Witness ==
    /\ syncState.exists /\ syncState.status = "idle" /\ syncState.totalSynced = 2
    /\ ui.progress.status = "completed" /\ ui.setProgress = ui.progress
    /\ ~ui.timer /\ ui.calls = <<>> /\ ~ui.isLoading
====
